---- MODULE Spec2Model ----
(***************************************************************************)
(* Recording orchestrator of the security-cam-app motion-detector service  *)
(* (motion-detector/detector.py): the start/stop webhook handlers that own *)
(* the active recording sessions, the process manager loop that supervises *)
(* the per-camera 'motion' daemons and continuous ffmpeg recorders, and    *)
(* the backend operations that change the camera configuration.            *)
(***************************************************************************)
EXTENDS Integers, Sequences, FiniteSets, TLC

\* ------------------------------------------------------------------ bounds
MaxEvents == 2
MaxProcs == 2
MaxPending == 2
MaxTime == 1

\* --------------------------------------------------------------- constants
\* the camera ids of the model: Camera.id values
CamIds == {1, 2}
\* a nullable column holding no value / a dict lookup that finds no key
Null == -1
\* Camera.motion_type values written by the backend and read by the services
MotionTypes == {"off", "active", "webhook"}
CameraRows == [motion_type : MotionTypes, continuous_recording : BOOLEAN]
NoCamera == [motion_type |-> "absent", continuous_recording |-> FALSE]
NoResponse == [op |-> "none", status |-> Null, message |-> "none"]

VARIABLES
    cameras,                      \* the cameras table: camera id -> row or NoCamera
    events,                       \* the events table: events[i] is the row with id i
    procs,                        \* every subprocess launched so far: procs[pid]
    active_recordings,            \* camera id -> session or NoSession
    running_motion_processes,     \* camera id -> pid or Null
    running_continuous_processes, \* camera id -> pid or Null
    pending,                      \* webhook requests accepted and not yet handled
    starting,                     \* start handlers past the duplicate check, not yet returned
    response,                     \* the response of the last webhook handled
    thumb_threads,                \* finalize_event threads started and not finished
    now,                          \* the clock, in seconds
    detect_params,                \* cameras.motion_roi and cameras.motion_sensitivity, by camera id
    loops,                        \* the manager and the disk thread: running, recovered or dead
    files,                        \* the .mp4 files under /recordings, by file id
    disk_free,                    \* free space of the /recordings volume, in GiB
    system_settings               \* system_settings.retention_days, Null while the table is empty

vars == <<cameras, events, procs, active_recordings, running_motion_processes,
          running_continuous_processes, pending, starting, response,
          thumb_threads, now, detect_params, loops, files, disk_free,
          system_settings>>

\* what the webhook handlers and the backend's camera operations never touch
detectorVars == <<loops, files, disk_free, system_settings>>

\* ----------------------------------------------------------------- helpers
Requests == {"start", "stop"} \X CamIds

RECURSIVE SumPending(_, _)
SumPending(f, S) ==
    IF S = {} THEN 0
    ELSE LET r == CHOOSE x \in S : TRUE IN f[r] + SumPending(f, S \ {r})

PendingTotal == SumPending(pending, Requests)

Session(pid, eid) == [process |-> pid, event_id |-> eid]
\* camera_id not in active_recordings
NoSession == Session(Null, Null)

\* no mask file is named in the configuration
NoMaskFile == [magic |-> "none", width |-> 0, height |-> 0, maxval |-> 0, data |-> <<>>]

\* a child that was not given a motion.conf
NoConf == [threshold |-> Null, has_mask |-> FALSE, mask |-> NoMaskFile]

\* subprocess.Popen(...): a new running child, its handle is its index
Popen(kind, cam, eid) ==
    [kind |-> kind, camera_id |-> cam, event_id |-> eid, state |-> "running", sig |-> "none",
     conf |-> NoConf]

\* Popen.terminate(): SIGTERM requested through the handle
Terminate(ps, pid) == [ps EXCEPT ![pid].sig = "TERM"]

\* Popen.kill(): SIGKILL, which ends the child
Kill(ps, pid) == [ps EXCEPT ![pid].sig = "KILL", ![pid].state = "exited"]

\* the child has ended (communicate() returned)
Exited(ps, pid) == [ps EXCEPT ![pid].state = "exited"]

Reply(op, status, message) == [op |-> op, status |-> status, message |-> message]

\* Event.video_path is derived from the camera id and the second of the start
VideoPath(cam, t) == <<cam, t>>

\* thumb_filename has the base name of video_filename (lines 97-99)
ThumbPath(cam, t) == <<cam, t>>

\* thumbnail_path is NULL
NoPath == <<Null, Null>>

\* as if the event were created already ended
NewEvent_Ended(cam, t) ==
    [camera_id |-> cam, start_time |-> t, end_time |-> t,
     thumbnail_path |-> <<Null, Null>>, video_path |-> VideoPath(cam, t), reason |-> "motion (active)"]

\* Event(...) as start_record_webhook builds it
NewEvent(cam, t) ==
    [camera_id |-> cam, start_time |-> t, end_time |-> Null,
     thumbnail_path |-> NoPath, video_path |-> VideoPath(cam, t), reason |-> "motion (active)"]

\* the row with this id was deleted
NoEvent ==
    [camera_id |-> Null, start_time |-> Null, end_time |-> Null,
     thumbnail_path |-> NoPath, video_path |-> NoPath, reason |-> "deleted"]

\* as if the column had no unique constraint
UniqueViolation_Unchecked(path) == FALSE

\* video_path = Column(String, unique=True)
UniqueViolation(path) == \E i \in 1..Len(events) : events[i].video_path = path

\* ------------------------------------------- motion.conf and the mask
\* sensitivity is a percentage: line 343 divides it by 100.0
MaxSensitivity == 100

\* motion_roi is a string, here the sequence of its characters: "0,11" and
\* "5,100"; the empty sequence stands for None and for ""
Rois == {<<>>, <<"0", ",", "1", "1">>, <<"5", ",", "1", "0", "0">>}

DetectParams == [motion_roi : Rois, motion_sensitivity : 0..MaxSensitivity]

\* Camera(...) in create_camera_for_user: no ROI, motion_sensitivity=50
DefaultParams == [motion_roi |-> <<>>, motion_sensitivity |-> 50]

Abs(x) == IF x < 0 THEN -x ELSE x

RECURSIVE Pow2(_)
Pow2(n) == IF n = 0 THEN 1 ELSE 2 * Pow2(n - 1)

RECURSIVE Pow2Mod(_, _)
Pow2Mod(n, m) == IF n = 0 THEN 1 % m ELSE (2 * Pow2Mod(n - 1, m)) % m

\* floor(log2(a / b)) for integers a, b > 0: the exponent of the double a / b
RECURSIVE FloorLog2(_, _)
FloorLog2(a, b) ==
    IF a < b THEN FloorLog2(2 * a, b) - 1
    ELSE IF a >= 2 * b THEN FloorLog2(a, 2 * b) + 1
    ELSE 0

\* sensitivity / 100.0 in binary64, for a > 0: the quotient has a 53-bit
\* significand, so it is a/100 + DivErr(a) / (100 * 2^(52 - e)) with
\* e = FloorLog2(a, 100), where DivErr is what rounding to nearest adds to
\* the remainder of a * 2^(52 - e) by 100 (a remainder of 50 cannot occur)
DivErr(a) ==
    LET rem == ((a % 100) * Pow2Mod(52 - FloorLog2(a, 100), 100)) % 100
    IN IF rem < 50 THEN -rem ELSE 100 - rem

\* n / 2^d rounded to the nearest integer (no tie occurs for the n below)
Nearest(n, d) ==
    IF d > 20 THEN 0
    ELSE LET q == Abs(n) \div Pow2(d)
             r == Abs(n) % Pow2(d)
             up == IF 2 * r > Pow2(d) THEN q + 1 ELSE q
         IN IF n < 0 THEN -up ELSE up

\* (sensitivity / 100.0) * 4700 in binary64: 47 * a + MulErr(a) * 2^(j - 52),
\* j = FloorLog2(47 * a, 1); the quotient's error, times 4700, rounded to
\* the spacing of the doubles around 47 * a
MulErr(a) == Nearest(47 * DivErr(a), FloorLog2(47 * a, 1) - FloorLog2(a, 100))

IsPow2(t) == t = Pow2(FloorLog2(t, 1))

\* int(5000 - p) for the double p = sgn * (47 * a + MulErr(a) * 2^(j - 52)):
\* the difference is t - r * 2^(j - 52) rounded to a double; when it is a
\* double just inside t, int() truncates it to the integer next to t
Truncated(a, sgn) ==
    LET t == 5000 - sgn * 47 * a
        r == sgn * MulErr(a)
        j == FloorLog2(47 * a, 1)
        exact == j >= FloorLog2(Abs(t), 1) - (IF IsPow2(Abs(t)) THEN 1 ELSE 0)
    IN IF t = 0 \/ r = 0 THEN t
       ELSE IF t > 0 THEN (IF r > 0 /\ exact THEN t - 1 ELSE t)
       ELSE (IF r < 0 /\ exact THEN t + 1 ELSE t)

\* line 343 on a sensitivity that is already chosen: int(5000 - ((s / 100.0) * 4700))
FloatThreshold(s) ==
    IF s = 0 THEN 5000 ELSE Truncated(Abs(s), IF s < 0 THEN -1 ELSE 1)

\* line 342: a sensitivity that is falsy (None or 0) is replaced by 50
Sensitivity(stored) == IF stored = 0 THEN 50 ELSE stored

\* lines 342-343
Threshold(stored) == FloatThreshold(Sensitivity(stored))

DigitChars == <<"0", "1", "2", "3", "4", "5", "6", "7", "8", "9">>

IsDigit(ch) == \E d \in 1..10 : DigitChars[d] = ch

DigitOf(ch) == (CHOOSE d \in 1..10 : DigitChars[d] = ch) - 1

\* str.split(sep): the pieces between the separators, empty ones included
RECURSIVE Split(_, _)
Split(s, sep) ==
    IF \A i \in 1..Len(s) : s[i] # sep THEN <<s>>
    ELSE LET i == CHOOSE k \in 1..Len(s) : s[k] = sep /\ \A j \in 1..(k - 1) : s[j] # sep
         IN <<SubSeq(s, 1, i - 1)>> \o Split(SubSeq(s, i + 1, Len(s)), sep)

\* int() skips blanks at both ends of its argument
RECURSIVE Strip(_)
Strip(s) ==
    IF s = <<>> THEN s
    ELSE IF Head(s) = " " THEN Strip(Tail(s))
    ELSE IF s[Len(s)] = " " THEN Strip(SubSeq(s, 1, Len(s) - 1))
    ELSE s

\* the digits that follow the optional sign
Unsigned(s) == IF s # <<>> /\ Head(s) \in {"-", "+"} THEN Tail(s) ELSE s

\* int(piece) returns: blanks, an optional sign, one digit or more
IsInt(piece) ==
    LET body == Unsigned(Strip(piece))
    IN body # <<>> /\ \A i \in 1..Len(body) : IsDigit(body[i])

RECURSIVE Decimal(_)
Decimal(body) ==
    IF body = <<>> THEN 0
    ELSE 10 * Decimal(SubSeq(body, 1, Len(body) - 1)) + DigitOf(body[Len(body)])

\* the value of int(piece)
IntOf(piece) ==
    LET t == Strip(piece)
    IN IF Head(t) = "-" THEN -Decimal(Unsigned(t)) ELSE Decimal(Unsigned(t))

\* line 317: the pieces of roi_string.split(',') that are not empty
Pieces(roi_string) ==
    LET all == Split(roi_string, ",") IN {all[i] : i \in {j \in 1..Len(all) : all[j] # <<>>}}

\* as if the cell number were taken apart the other way round
Mask_Transposed(selected_cells) ==
    [row \in 0..9 |-> [col \in 0..9 |->
        IF \E cell_id \in selected_cells :
              /\ 0 <= cell_id /\ cell_id < 100
              /\ cell_id % 10 = row /\ cell_id \div 10 = col
        THEN 255 ELSE 0]]

\* lines 315-322: the zero matrix with 255 written at (cell_id // 10,
\* cell_id % 10) for each selected cell of the range
Mask(selected_cells) ==
    [row \in 0..9 |-> [col \in 0..9 |->
        IF \E cell_id \in selected_cells :
              /\ 0 <= cell_id /\ cell_id < 100
              /\ cell_id \div 10 = row /\ cell_id % 10 = col
        THEN 255 ELSE 0]]

\* lines 324-328: the three header lines, then mask.tobytes(): the bytes of
\* the matrix row after row
MaskFile(mask) ==
    [magic |-> "P5", width |-> 10, height |-> 10, maxval |-> 255,
     data |-> [i \in 1..100 |-> mask[(i - 1) \div 10][(i - 1) % 10]]]

\* lines 313-332: int() of a piece that is no integer raises ValueError before
\* the file is opened; the exception is logged and False returned
generate_mask_file(roi_string) ==
    IF \E piece \in Pieces(roi_string) : ~IsInt(piece)
    THEN [ok |-> FALSE, mask |-> Mask({}), file |-> NoMaskFile]
    ELSE LET mask == Mask({IntOf(piece) : piece \in Pieces(roi_string)})
         IN [ok |-> TRUE, mask |-> mask, file |-> MaskFile(mask)]

\* the ROI strings the generator is tried on: the comma-joined numbers of up
\* to MaxCells cells of the grid, strings that are no list of
\* numbers ("x", "1,x"), and strings int() accepts all the same ("-3", " 7",
\* "4,,4")
MaxCells == 2

SampleCells == {0, 1, 10, 11, 22, 99}

CellSets == {R \in SUBSET SampleCells : Cardinality(R) <= MaxCells}

RECURSIVE ToDigits(_)
ToDigits(n) ==
    IF n < 10 THEN <<DigitChars[n + 1]>> ELSE ToDigits(n \div 10) \o <<DigitChars[(n % 10) + 1]>>

\* the cells in ascending order, joined by commas
RECURSIVE FormatRoi(_)
FormatRoi(R) ==
    IF R = {} THEN <<>>
    ELSE LET n == CHOOSE x \in R : \A y \in R : x <= y
         IN ToDigits(n) \o (IF R = {n} THEN <<>> ELSE <<",">> \o FormatRoi(R \ {n}))

MalformedRois == {<<"x">>, <<"1", ",", "x">>}

RoisTried ==
    {FormatRoi(R) : R \in CellSets} \cup MalformedRois
        \cup {<<"-", "3">>, <<" ", "7">>, <<"4", ",", ",", "4">>}

\* motion_sensitivity is an Integer column and CameraUpdate checks no range:
\* the values up to MaxExcess beyond either end of the percentage
MaxExcess == 10

StorableSensitivities == (-MaxExcess)..(MaxSensitivity + MaxExcess)

\* the threshold of every sensitivity the model stores, computed once
Thresholds == [stored \in StorableSensitivities |-> Threshold(stored)]

\* the mask file of every ROI the model stores, computed once
MaskFiles == [roi \in Rois \cup RoisTried |-> generate_mask_file(roi)]

\* lines 337-340: the mask is generated for a ROI that is not empty, and the
\* file is named in motion.conf when generate_mask_file returned True
HasMask(params) == params.motion_roi # <<>> /\ MaskFiles[params.motion_roi].ok

\* generate_motion_conf: the threshold line and the mask the file names
MotionConf(params) ==
    [threshold |-> Thresholds[params.motion_sensitivity],
     has_mask |-> HasMask(params),
     mask |-> IF HasMask(params) THEN MaskFiles[params.motion_roi].file ELSE NoMaskFile]

\* ------------------------------------------------------ /recordings
\* MIN_FREE_BYTES and TARGET_FREE_BYTES, counted in GiB
MIN_FREE_BYTES == 10
TARGET_FREE_BYTES == 15

MaxFiles == 3
FileIds == 1..MaxFiles
NoFile == [tree |-> "none", mtime |-> 0, size |-> 0, open |-> FALSE]

\* a file of /recordings/continuous: st_mtime, its size in GiB, and whether
\* a running ffmpeg of start_continuous_recording still writes to it
SegmentFiles == [tree : {"continuous"}, mtime : FileIds, size : {6, 7}, open : BOOLEAN]

\* a finished event video of /recordings
EventFiles == [tree : {"event"}, mtime : FileIds, size : {6}, open : {FALSE}]

\* the free space the volume is found with, in GiB
FreeLevels == {8, 10}

\* ------------------------------------------------------------------- Init
Init ==
    /\ cameras = [c \in CamIds |-> NoCamera]
    /\ events = <<>>
    /\ procs = <<>>
    /\ active_recordings = [c \in CamIds |-> NoSession]
    /\ running_motion_processes = [c \in CamIds |-> Null]
    /\ running_continuous_processes = [c \in CamIds |-> Null]
    /\ pending = [r \in Requests |-> 0]
    /\ starting = {}
    /\ response = NoResponse
    /\ thumb_threads = {}
    /\ now = 0
    /\ detect_params = [c \in CamIds |-> DefaultParams]
    /\ loops = [manager |-> "running", disk |-> "running"]
    /\ files = [f \in FileIds |-> NoFile]
    /\ disk_free = TARGET_FREE_BYTES
    /\ system_settings = Null

\* ------------------------------------------------- webhook requests arrive
\* A POST /start_record/{c} or /stop_record/{c} reaches the server and waits
\* for the event loop (uvicorn.run: one process, one loop).
Arrive(kind, c) ==
    /\ PendingTotal < MaxPending
    /\ pending' = [pending EXCEPT ![<<kind, c>>] = @ + 1]
    /\ UNCHANGED <<cameras, events, procs, active_recordings, running_motion_processes,
                   running_continuous_processes, starting, response, thumb_threads,
                   now>>
    /\ UNCHANGED <<detect_params, detectorVars>>

\* ------------------------------------------------ start_record_webhook
\* The coroutine has no await: once the loop runs it, no other handler runs
\* until it returns.
\* as if the handler could be suspended between its check and its registration
LoopFree_Interleaved == TRUE

LoopFree == starting = {}

\* as if the duplicate check were missing
AlreadyRecording_Unchecked(c) == FALSE

AlreadyRecording(c) == active_recordings[c] # NoSession

\* lines 81-103: duplicate check, camera lookup, timestamp and file names
StartCheck(c) ==
    /\ LoopFree
    /\ pending[<<"start", c>>] > 0
    /\ pending' = [pending EXCEPT ![<<"start", c>>] = @ - 1]
    /\ IF AlreadyRecording(c)
       THEN /\ response' = Reply("start", 200, "Already recording")
            /\ starting' = starting
       ELSE IF cameras[c] = NoCamera
       THEN \* HTTPException(404) is raised inside the try and caught by
            \* 'except Exception', which answers 500 with detail str(e)
            /\ response' = Reply("start", 500, "404: Camera not found")
            /\ starting' = starting
       ELSE /\ Len(events) < MaxEvents /\ Len(procs) < MaxProcs
            /\ starting' = starting \cup {[camera_id |-> c, now |-> now]}
            /\ response' = response
    /\ UNCHANGED <<cameras, events, procs, active_recordings, running_motion_processes,
                   running_continuous_processes, thumb_threads, now>>
    /\ UNCHANGED <<detect_params, detectorVars>>

\* lines 105-147: insert and commit the Event, launch ffmpeg, register the session
StartRecord(h, commit_ok, launch_ok) ==
    /\ h \in starting
    /\ LET c == h.camera_id
           ev == NewEvent(c, h.now)
           eid == Len(events) + 1
           pid == Len(procs) + 1
       IN IF ~commit_ok \/ UniqueViolation(ev.video_path)
          THEN \* db.commit() raises: rollback, 500 with detail=str(e)
               /\ response' = Reply("start", 500,
                                    IF UniqueViolation(ev.video_path)
                                    THEN "UNIQUE constraint failed" ELSE "commit failed")
               /\ UNCHANGED <<events, procs, active_recordings>>
          ELSE IF ~launch_ok
          THEN \* Popen raises after the commit: db.rollback() undoes nothing
               /\ events' = Append(events, ev)
               /\ response' = Reply("start", 500, "launch failed")
               /\ UNCHANGED <<procs, active_recordings>>
          ELSE /\ events' = Append(events, ev)
               /\ procs' = Append(procs, Popen("record", c, eid))
               /\ active_recordings' = [active_recordings EXCEPT ![c] = Session(pid, eid)]
               /\ response' = Reply("start", 200, "Recording started")
    /\ starting' = starting \ {h}
    /\ UNCHANGED <<cameras, running_motion_processes, running_continuous_processes,
                   pending, thumb_threads, now>>
    /\ UNCHANGED <<detect_params, detectorVars>>

\* ------------------------------------------------- stop_record_webhook
\* as if the stop restarted the event
Ended_Restarted(row, t) == [row EXCEPT !.end_time = t, !.start_time = t]

\* line 175: event.end_time = datetime.now(timezone.utc)
Ended(row, t) == [row EXCEPT !.end_time = t]

StopOutcomes == {"clean", "failed_output", "timeout"}

\* as if a timeout of communicate() were only logged
StopProcess_NoEscalation(ps, pid, outcome) ==
    IF outcome = "timeout" THEN Terminate(ps, pid)
    ELSE Exited(Terminate(ps, pid), pid)

\* lines 157-171: terminate, communicate(timeout=30), kill on an exception
StopProcess(ps, pid, outcome) ==
    IF outcome = "timeout" THEN Kill(Terminate(ps, pid), pid)
    ELSE Exited(Terminate(ps, pid), pid)

\* as if the handler popped the session without looking for it first (KeyError)
NothingToStop_KeyError ==
    /\ response' = Reply("stop", 500, "Internal Server Error")
    /\ UNCHANGED <<events, procs, active_recordings, thumb_threads>>

\* lines 153-155: nothing is recorded for the camera
NothingToStop ==
    /\ response' = Reply("stop", 200, "No active recording to stop")
    /\ UNCHANGED <<events, procs, active_recordings, thumb_threads>>

StopRecord(c, outcome, commit_ok) ==
    /\ LoopFree
    /\ pending[<<"stop", c>>] > 0
    /\ pending' = [pending EXCEPT ![<<"stop", c>>] = @ - 1]
    /\ IF active_recordings[c] = NoSession
       THEN NothingToStop
       ELSE LET recording == active_recordings[c]
                pid == recording.process
                eid == recording.event_id
            IN /\ active_recordings' = [active_recordings EXCEPT ![c] = NoSession]
               \* a child that already ended cannot time out
               /\ outcome = "timeout" => procs[pid].state = "running"
               /\ procs' = StopProcess(procs, pid, outcome)
               /\ IF outcome = "failed_output"
                  THEN \* early return: end_time is not written
                       /\ response' = Reply("stop", 200, "Recording process failed")
                       /\ UNCHANGED <<events, thumb_threads>>
                  ELSE IF commit_ok /\ events[eid] # NoEvent
                  THEN /\ events' = [events EXCEPT ![eid] = Ended(@, now)]
                       /\ thumb_threads' = thumb_threads \cup {eid}
                       /\ response' = Reply("stop", 200, "Recording stopped")
                  ELSE /\ response' = Reply("stop", 200, "Error stopping recording")
                       /\ UNCHANGED <<events, thumb_threads>>
    /\ UNCHANGED <<cameras, running_motion_processes, running_continuous_processes,
                   starting, now>>
    /\ UNCHANGED <<detect_params, detectorVars>>

\* as if the thread wrote the path whatever create_thumbnail returned
ThumbnailWritten_Always(thumb_ok, commit_ok, row) == commit_ok /\ row # NoEvent

\* lines 202-208: the update is reached when create_thumbnail returned True,
\* the row is still there and the commit goes through
ThumbnailWritten(thumb_ok, commit_ok, row) == thumb_ok /\ commit_ok /\ row # NoEvent

\* lines 201-237, the finalize_event thread: create_thumbnail (ffmpeg on the
\* finished video), then the thumbnail_path update; a failure of either is
\* logged and nothing else happens
FinalizeEvent(eid, thumb_ok, commit_ok) ==
    /\ eid \in thumb_threads
    /\ thumb_threads' = thumb_threads \ {eid}
    /\ events' = IF ThumbnailWritten(thumb_ok, commit_ok, events[eid])
                 THEN [events EXCEPT ![eid].thumbnail_path =
                          ThumbPath(events[eid].camera_id, events[eid].start_time)]
                 ELSE events
    /\ UNCHANGED <<cameras, procs, active_recordings, running_motion_processes,
                   running_continuous_processes, pending, starting, response,
                   now>>
    /\ UNCHANGED <<detect_params, detectorVars>>

\* a supervised or recording child ends by itself (stream lost, crash)
ProcessExit(pid) ==
    /\ pid \in 1..Len(procs)
    /\ procs[pid].state = "running"
    /\ procs' = Exited(procs, pid)
    /\ UNCHANGED <<cameras, events, active_recordings, running_motion_processes,
                   running_continuous_processes, pending, starting, response,
                   thumb_threads, now>>
    /\ UNCHANGED <<detect_params, detectorVars>>

Tick ==
    /\ now < MaxTime
    /\ now' = now + 1
    /\ UNCHANGED <<cameras, events, procs, active_recordings, running_motion_processes,
                   running_continuous_processes, pending, starting, response,
                   thumb_threads>>
    /\ UNCHANGED <<detect_params, detectorVars>>

NextSession ==
    \/ \E r \in Requests : Arrive(r[1], r[2])
    \/ \E c \in CamIds : StartCheck(c)
    \/ \E h \in starting, commit_ok, launch_ok \in BOOLEAN : StartRecord(h, commit_ok, launch_ok)
    \/ \E c \in CamIds, o \in StopOutcomes, commit_ok \in BOOLEAN : StopRecord(c, o, commit_ok)
    \/ \E p \in 1..MaxProcs : ProcessExit(p)
    \/ Tick

\* the webhook surface alone, over a configuration that stays as it is:
\* camera 1 is configured, camera 2 may be unknown to the store
InitSession ==
    /\ cameras \in {[c \in CamIds |-> IF c \in S THEN [motion_type |-> "active", continuous_recording |-> FALSE]
                                      ELSE NoCamera] : S \in {{1}, {1, 2}}}
    /\ events = <<>>
    /\ procs = <<>>
    /\ active_recordings = [c \in CamIds |-> NoSession]
    /\ running_motion_processes = [c \in CamIds |-> Null]
    /\ running_continuous_processes = [c \in CamIds |-> Null]
    /\ pending = [r \in Requests |-> 0]
    /\ starting = {}
    /\ response = NoResponse
    /\ thumb_threads = {}
    /\ now = 0
    /\ detect_params = [c \in CamIds |-> DefaultParams]
    /\ loops = [manager |-> "running", disk |-> "running"]
    /\ files = [f \in FileIds |-> NoFile]
    /\ disk_free = TARGET_FREE_BYTES
    /\ system_settings = Null

SpecSession == InitSession /\ [][NextSession]_vars

\* the end of a recording: both cameras are being recorded, and the stop
\* requests and the thumbnail threads take their course
InitThumb ==
    /\ cameras = [c \in CamIds |-> [motion_type |-> "active", continuous_recording |-> FALSE]]
    /\ events = <<NewEvent(1, 0), NewEvent(2, 0)>>
    /\ procs = <<Popen("record", 1, 1), Popen("record", 2, 2)>>
    /\ active_recordings = [c \in CamIds |-> Session(c, c)]
    /\ running_motion_processes = [c \in CamIds |-> Null]
    /\ running_continuous_processes = [c \in CamIds |-> Null]
    /\ pending = [r \in Requests |-> 0]
    /\ starting = {}
    /\ response = NoResponse
    /\ thumb_threads = {}
    /\ now = 0
    /\ detect_params = [c \in CamIds |-> DefaultParams]
    /\ loops = [manager |-> "running", disk |-> "running"]
    /\ files = [f \in FileIds |-> NoFile]
    /\ disk_free = TARGET_FREE_BYTES
    /\ system_settings = Null

NextThumb ==
    \/ \E c \in CamIds : Arrive("stop", c)
    \/ \E c \in CamIds, o \in StopOutcomes, commit_ok \in BOOLEAN : StopRecord(c, o, commit_ok)
    \/ \E eid \in 1..MaxEvents, thumb_ok, commit_ok \in BOOLEAN :
          FinalizeEvent(eid, thumb_ok, commit_ok)
    \/ \E p \in 1..MaxProcs : ProcessExit(p)
    \/ Tick

SpecThumb == InitThumb /\ [][NextThumb]_vars

\* ------------------------------------------- backend: camera configuration
\* POST /api/cameras: a new camera starts with detection and recording off
create_camera(c) ==
    /\ cameras[c] = NoCamera
    /\ cameras' = [cameras EXCEPT ![c] = [motion_type |-> "off", continuous_recording |-> FALSE]]
    /\ detect_params' = [detect_params EXCEPT ![c] = DefaultParams]
    /\ UNCHANGED <<events, procs, active_recordings, running_motion_processes,
                   running_continuous_processes, pending, starting, response,
                   thumb_threads, now>>
    /\ UNCHANGED detectorVars

\* PATCH /api/cameras/{c}: the fields given are overwritten
update_camera(c, row) ==
    /\ cameras[c] # NoCamera
    /\ row \in CameraRows
    /\ row # cameras[c]
    /\ cameras' = [cameras EXCEPT ![c] = row]
    /\ UNCHANGED <<events, procs, active_recordings, running_motion_processes,
                   running_continuous_processes, pending, starting, response,
                   thumb_threads, now>>
    /\ UNCHANGED <<detect_params, detectorVars>>

\* DELETE /api/cameras/{c}
delete_camera(c) ==
    /\ cameras[c] # NoCamera
    /\ cameras' = [cameras EXCEPT ![c] = NoCamera]
    /\ detect_params' = [detect_params EXCEPT ![c] = DefaultParams]
    /\ UNCHANGED <<events, procs, active_recordings, running_motion_processes,
                   running_continuous_processes, pending, starting, response,
                   thumb_threads, now>>
    /\ UNCHANGED detectorVars

\* PATCH /api/cameras/{c} with motion_roi and motion_sensitivity: the two
\* columns are overwritten, and nothing is sent to the detector
update_detection(c, params) ==
    /\ cameras[c] # NoCamera
    /\ params \in DetectParams
    /\ params # detect_params[c]
    /\ detect_params' = [detect_params EXCEPT ![c] = params]
    /\ UNCHANGED <<cameras, events, procs, active_recordings, running_motion_processes,
                   running_continuous_processes, pending, starting, response,
                   thumb_threads, now>>
    /\ UNCHANGED detectorVars

\* ------------------------------------------------- process_manager_loop
Min(S) == CHOOSE x \in S : \A y \in S : x <= y

\* the keys of a registry dict
Keys(reg) == {c \in CamIds : reg[c] # Null}

\* line 392-393: the cameras that get a 'motion' daemon
active_motion_ids == {c \in CamIds : cameras[c] # NoCamera /\ cameras[c].motion_type = "active"}

\* line 416-417: the cameras that are recorded around the clock
continuous_ids == {c \in CamIds : cameras[c] # NoCamera /\ cameras[c].continuous_recording}

\* lines 398-403: Popen(['motion', '-c', conf_path]) on the file that
\* generate_motion_conf has just written from the row read in this cycle
MotionDaemon(c) == [Popen("motion", c, Null) EXCEPT !.conf = MotionConf(detect_params[c])]

\* Popen for each camera of S in turn, each handle stored under its camera id
RECURSIVE LaunchAll(_, _, _)
LaunchAll(m, S, kind) ==
    IF S = {} THEN m
    ELSE LET c == Min(S)
             pid == Len(m.procs) + 1
             child == IF kind = "motion" THEN MotionDaemon(c) ELSE Popen(kind, c, Null)
         IN LaunchAll([procs |-> Append(m.procs, child),
                       reg |-> [m.reg EXCEPT ![c] = pid]],
                      S \ {c}, kind)

\* as if the handle were dropped without terminating the child
RECURSIVE StopAll_PopOnly(_, _)
StopAll_PopOnly(m, S) ==
    IF S = {} THEN m
    ELSE LET c == Min(S)
         IN StopAll_PopOnly([procs |-> m.procs, reg |-> [m.reg EXCEPT ![c] = Null]], S \ {c})

\* reg.pop(c) and p.terminate() for each camera of S
RECURSIVE StopAll(_, _)
StopAll(m, S) ==
    IF S = {} THEN m
    ELSE LET c == Min(S)
         IN StopAll([procs |-> Terminate(m.procs, m.reg[c]),
                     reg |-> [m.reg EXCEPT ![c] = Null]],
                    S \ {c})

\* as if the daemon were launched whatever generate_motion_conf returned
StartMotion_IgnoreConf(m, conf_bad, reached) ==
    LaunchAll(m, (active_motion_ids \ Keys(m.reg)) \cap reached, "motion")

\* lines 395-404: cameras that need a daemon and have no handle; the handle is
\* stored only when generate_motion_conf wrote the configuration
StartMotion(m, conf_bad, reached) ==
    LaunchAll(m, ((active_motion_ids \ Keys(m.reg)) \cap reached) \ conf_bad, "motion")

\* as if the loop over the running daemons were missing
MotionToStop_None(reg) == {}

\* lines 406-410: handles of cameras that no longer want a daemon
MotionToStop(reg) == Keys(reg) \ active_motion_ids

StopMotion(m) == StopAll(m, MotionToStop(m.reg))

\* lines 411-414: curl -X POST /stop_record/{c} for the stopped cameras that
\* are recording; the request waits for the event loop like any other
StopRequests(stopped) ==
    [r \in Requests |->
        IF r[1] = "stop" /\ r[2] \in stopped /\ active_recordings[r[2]] # NoSession
        THEN pending[r] + 1 ELSE pending[r]]

\* as if a handle were kept without asking poll() about it
ContinuousToStart_NoPoll(m) == {c \in continuous_ids : m.reg[c] = Null}

\* lines 419-428: start the missing recorders, replace the ones poll() finds dead
ContinuousToStart(m) ==
    {c \in continuous_ids :
        \/ m.reg[c] = Null
        \/ m.procs[m.reg[c]].state = "exited"}

StartContinuous(m, reached) ==
    LaunchAll(m, ContinuousToStart(m) \cap reached, "continuous")

\* lines 430-434: handles of cameras that are no longer recorded
ContinuousToStop(reg) == Keys(reg) \ continuous_ids

StopContinuous(m) == StopAll(m, ContinuousToStop(m.reg))

\* what one iteration may run into: the query fails, generate_motion_conf
\* returns False for the cameras of conf_bad, Popen (or makedirs) raises in the
\* phase raise_in after the cameras of reached were served
RaisePoints == {"none", "query", "motion", "continuous"}

\* as if the body of the loop had no except clause
AfterException_Uncaught(l, thread) == [l EXCEPT ![thread] = "dead"]

\* lines 436-437 and 304-305: the exception is logged, the loop sleeps and goes on
AfterException(l, thread) == [l EXCEPT ![thread] = "recovered"]

\* lines 388-441: one iteration of the loop
process_manager_cycle(raise_in, conf_bad, reached) ==
    LET m0 == [procs |-> procs, reg |-> running_motion_processes]
        m1 == StartMotion(m0, conf_bad, IF raise_in = "motion" THEN reached ELSE CamIds)
        m2 == StopMotion(m1)
        c0 == [procs |-> m2.procs, reg |-> running_continuous_processes]
        c1 == StartContinuous(c0, IF raise_in = "continuous" THEN reached ELSE CamIds)
        c2 == StopContinuous(c1)
    IN /\ loops.manager # "dead"
       /\ loops' = IF raise_in = "none" THEN loops ELSE AfterException(loops, "manager")
       /\ raise_in \in {"none", "query"} => reached = CamIds
       /\ raise_in # "motion" => conf_bad \subseteq active_motion_ids \ Keys(running_motion_processes)
       /\ raise_in = "motion" =>
             /\ conf_bad \subseteq reached
             /\ (active_motion_ids \ Keys(running_motion_processes)) \ reached # {}
       /\ raise_in = "continuous" => ContinuousToStart(c0) \ reached # {}
       /\ raise_in = "query" => conf_bad = {}
       /\ CASE raise_in = "query" ->
                 /\ UNCHANGED <<procs, running_motion_processes,
                                running_continuous_processes, pending>>
            [] raise_in = "motion" ->
                 /\ Len(m1.procs) <= MaxProcs
                 /\ procs' = m1.procs
                 /\ running_motion_processes' = m1.reg
                 /\ UNCHANGED <<running_continuous_processes, pending>>
            [] raise_in = "continuous" ->
                 /\ Len(c1.procs) <= MaxProcs
                 /\ procs' = c1.procs
                 /\ running_motion_processes' = m2.reg
                 /\ running_continuous_processes' = c1.reg
                 /\ pending' = StopRequests(MotionToStop(m1.reg))
            [] OTHER ->
                 /\ Len(c2.procs) <= MaxProcs
                 /\ procs' = c2.procs
                 /\ running_motion_processes' = m2.reg
                 /\ running_continuous_processes' = c2.reg
                 /\ pending' = StopRequests(MotionToStop(m1.reg))
       /\ UNCHANGED <<cameras, events, active_recordings, starting, response,
                      thumb_threads, now, detect_params, files, disk_free,
                      system_settings>>

NextManager ==
    \/ \E c \in CamIds : create_camera(c)
    \/ \E c \in CamIds, row \in CameraRows : update_camera(c, row)
    \/ \E c \in CamIds : delete_camera(c)
    \/ \E r \in RaisePoints, bad \in SUBSET CamIds, reached \in SUBSET CamIds :
          process_manager_cycle(r, bad, reached)
    \/ \E p \in 1..MaxProcs : ProcessExit(p)

SpecManager == Init /\ [][NextManager]_vars

\* lines 355-356: on_event_start and on_event_end of the configuration make
\* the daemon post to /start_record/{c} and /stop_record/{c}; a daemon posts
\* while it runs and has not been told to end
DaemonWebhook(kind, c) ==
    /\ running_motion_processes[c] # Null
    /\ procs[running_motion_processes[c]].state = "running"
    /\ procs[running_motion_processes[c]].sig = "none"
    /\ Arrive(kind, c)

\* a camera leaves the detection set while its daemon posts events: camera 1
\* detects motion and has its daemon, camera 2 is stored with detection off
InitLeave ==
    /\ cameras = [c \in CamIds |->
                     [motion_type |-> IF c = 1 THEN "active" ELSE "off",
                      continuous_recording |-> FALSE]]
    /\ detect_params = [c \in CamIds |-> DefaultParams]
    /\ events = <<>>
    /\ procs = <<MotionDaemon(1)>>
    /\ active_recordings = [c \in CamIds |-> NoSession]
    /\ running_motion_processes = [c \in CamIds |-> IF c = 1 THEN 1 ELSE Null]
    /\ running_continuous_processes = [c \in CamIds |-> Null]
    /\ pending = [r \in Requests |-> 0]
    /\ starting = {}
    /\ response = NoResponse
    /\ thumb_threads = {}
    /\ now = 0
    /\ loops = [manager |-> "running", disk |-> "running"]
    /\ files = [f \in FileIds |-> NoFile]
    /\ disk_free = TARGET_FREE_BYTES
    /\ system_settings = Null

\* the event loop runs the handler of a request that waits
ServeLeave ==
    \/ \E c \in CamIds : StartCheck(c)
    \/ \E h \in starting, commit_ok, launch_ok \in BOOLEAN : StartRecord(h, commit_ok, launch_ok)
    \/ \E c \in CamIds, o \in StopOutcomes, commit_ok \in BOOLEAN : StopRecord(c, o, commit_ok)

CycleLeave ==
    \E r \in RaisePoints, bad \in SUBSET CamIds, reached \in SUBSET CamIds :
       process_manager_cycle(r, bad, reached)

NextLeave ==
    \/ \E r \in Requests : DaemonWebhook(r[1], r[2])
    \/ ServeLeave
    \/ \E c \in CamIds : update_camera(c, [cameras[c] EXCEPT !.motion_type = "off"])
    \/ \E c \in CamIds : delete_camera(c)
    \/ CycleLeave
    \/ \E p \in 1..MaxProcs : ProcessExit(p)

\* the manager thread runs its loop for ever (line 387: while True) and the
\* event loop serves the requests that wait; the daemon's events and the
\* users' edits come or do not
SpecLeave ==
    /\ InitLeave
    /\ [][NextLeave]_vars
    /\ WF_vars(CycleLeave)
    /\ WF_vars(ServeLeave)

\* generate_motion_conf on every sensitivity of the range: two detecting
\* cameras whose rows hold any pair of sensitivities, the first any ROI too
InitConf ==
    /\ cameras = [c \in CamIds |-> [motion_type |-> "active", continuous_recording |-> FALSE]]
    /\ events = <<>>
    /\ procs = <<>>
    /\ active_recordings = [c \in CamIds |-> NoSession]
    /\ running_motion_processes = [c \in CamIds |-> Null]
    /\ running_continuous_processes = [c \in CamIds |-> Null]
    /\ pending = [r \in Requests |-> 0]
    /\ starting = {}
    /\ response = NoResponse
    /\ thumb_threads = {}
    /\ now = 0
    /\ detect_params \in {dp \in [CamIds -> DetectParams] : dp[2].motion_roi = <<>>}
    /\ loops = [manager |-> "running", disk |-> "running"]
    /\ files = [f \in FileIds |-> NoFile]
    /\ disk_free = TARGET_FREE_BYTES
    /\ system_settings = Null

NextConf ==
    \E r \in RaisePoints, bad \in SUBSET CamIds, reached \in SUBSET CamIds :
       process_manager_cycle(r, bad, reached)

SpecConf == InitConf /\ [][NextConf]_vars

\* generate_mask_file and generate_motion_conf on their inputs: camera 1's
\* row holds any of the ROI strings tried, camera 2's any storable sensitivity
InitGenerator ==
    /\ cameras = [c \in CamIds |-> [motion_type |-> "active", continuous_recording |-> FALSE]]
    /\ events = <<>>
    /\ procs = <<>>
    /\ active_recordings = [c \in CamIds |-> NoSession]
    /\ running_motion_processes = [c \in CamIds |-> Null]
    /\ running_continuous_processes = [c \in CamIds |-> Null]
    /\ pending = [r \in Requests |-> 0]
    /\ starting = {}
    /\ response = NoResponse
    /\ thumb_threads = {}
    /\ now = 0
    /\ \E roi \in RoisTried, stored \in StorableSensitivities :
          detect_params = [c \in CamIds |->
                              IF c = 1 THEN [motion_roi |-> roi, motion_sensitivity |-> 50]
                              ELSE [motion_roi |-> <<>>, motion_sensitivity |-> stored]]
    /\ loops = [manager |-> "running", disk |-> "running"]
    /\ files = [f \in FileIds |-> NoFile]
    /\ disk_free = TARGET_FREE_BYTES
    /\ system_settings = Null

NextGenerator ==
    \E r \in RaisePoints, bad \in SUBSET CamIds, reached \in SUBSET CamIds :
       process_manager_cycle(r, bad, reached)

SpecGenerator == InitGenerator /\ [][NextGenerator]_vars

\* ---------------------------------------------------- disk_manager_loop
\* as if the pattern were /recordings/**/*.mp4
ContinuousFiles_AllTrees(fs) == {f \in FileIds : fs[f] # NoFile}

\* line 284: glob("/recordings/continuous/**/*.mp4", recursive=True)
ContinuousFiles(fs) == {f \in FileIds : fs[f].tree = "continuous"}

\* line 285: files.sort(key=os.path.getmtime); the sort is stable, so files
\* of one mtime keep the order glob listed them in, which is the order of
\* their numbers
RECURSIVE SortedByMtime(_, _)
SortedByMtime(fs, S) ==
    IF S = {} THEN <<>>
    ELSE LET f == CHOOSE x \in S : \A y \in S :
                     \/ fs[x].mtime < fs[y].mtime
                     \/ (fs[x].mtime = fs[y].mtime /\ x <= y)
         IN <<f>> \o SortedByMtime(fs, S \ {f})

\* as if the size were added before os.remove was tried
FreedBytes_CountFailed(freed_bytes, size, removed) == freed_bytes + size

\* lines 292-295: freed_bytes += size is reached only when os.remove returned
FreedBytes(freed_bytes, size, removed) ==
    IF removed THEN freed_bytes + size ELSE freed_bytes

\* line 297: (usage.free + freed_bytes) > TARGET_FREE_BYTES
TargetReached(free, freed_bytes) == free + freed_bytes > TARGET_FREE_BYTES

\* lines 290-300: the files in order; getsize or remove raises for the files
\* of failed, which are logged and left; the test of line 297 follows a
\* removal only. d is [files, freed_bytes].
RECURSIVE Evict(_, _, _, _)
Evict(d, order, failed, free) ==
    IF order = <<>> THEN d
    ELSE LET f == Head(order)
             removed == f \notin failed
             after == [files |-> IF removed THEN [d.files EXCEPT ![f] = NoFile] ELSE d.files,
                       freed_bytes |-> FreedBytes(d.freed_bytes, d.files[f].size, removed)]
         IN IF removed /\ TargetReached(free, after.freed_bytes) THEN after
            ELSE Evict(after, Tail(order), failed, free)

\* as if eviction began below the high watermark
LowSpace_BelowTarget(free) == free < TARGET_FREE_BYTES

\* line 282: if usage.free < MIN_FREE_BYTES
LowSpace(free) == free < MIN_FREE_BYTES

\* where an iteration may raise out of the per-file handler: disk_usage
\* (line 280), or os.path.getmtime under the sort (line 285) on a path that
\* glob listed and that is gone
DiskRaisePoints == {"none", "usage", "sort"}

\* the bytes the files of S occupy
RECURSIVE TotalSize(_, _)
TotalSize(fs, S) ==
    IF S = {} THEN 0
    ELSE LET f == CHOOSE x \in S : TRUE IN fs[f].size + TotalSize(fs, S \ {f})

\* the volume after another process removed the files of S
Without(fs, S) == [f \in FileIds |-> IF f \in S THEN NoFile ELSE fs[f]]

\* one iteration of disk_manager_loop (lines 279-305); raised names the call
\* that raises out of the per-file handler, failed the files that cannot be
\* removed, vanished the files that glob listed and another process removed
\* before the loop came to them: before the sort when raised is "sort" (the
\* FileNotFoundError of getmtime leaves the try of line 279), after it
\* otherwise (getsize raises inside the per-file try of line 291)
disk_manager_loop(raised, failed, vanished) ==
    /\ loops.disk # "dead"
    /\ raised \in DiskRaisePoints
    /\ failed \subseteq ContinuousFiles(files)
    /\ vanished \subseteq ContinuousFiles(files) \ failed
    /\ (raised = "usage" \/ ~LowSpace(disk_free)) => (failed = {} /\ vanished = {})
    /\ raised = "sort" => (failed = {} /\ vanished # {})
    /\ loops' = IF raised = "none" THEN loops ELSE AfterException(loops, "disk")
    /\ IF raised # "usage" /\ LowSpace(disk_free)
       THEN LET order == SortedByMtime(files, ContinuousFiles(files))
                left == [files |-> Without(files, vanished), freed_bytes |-> 0]
                d == IF raised = "sort" THEN left
                     ELSE Evict(left, order, failed \cup vanished, disk_free)
                gone == {f \in FileIds : d.files[f] # files[f]}
            IN /\ files' = d.files
               \* the volume gains what was removed
               /\ disk_free' = disk_free + TotalSize(files, gone)
       ELSE UNCHANGED <<files, disk_free>>
    /\ UNCHANGED <<cameras, events, procs, active_recordings, running_motion_processes,
                   running_continuous_processes, pending, starting, response,
                   thumb_threads, now, detect_params, system_settings>>

\* the iteration on a volume that no other process removes files from
disk_manager_pass(raised, failed) == disk_manager_loop(raised, failed, {})

\* glob lists the files that exist oldest first, files of one mtime in any
\* order; a listing in another order is sorted into one of these
OldestFirst(fs) ==
    \A f, g \in FileIds :
       (f < g /\ fs[g] # NoFile) => (fs[f] # NoFile /\ fs[f].mtime <= fs[g].mtime)

\* the disk loop over any content of the volume: up to MaxFiles files, each a
\* continuous segment or an event video; one event is on record
InitDisk ==
    /\ cameras = [c \in CamIds |-> [motion_type |-> "active", continuous_recording |-> TRUE]]
    /\ events = <<[NewEvent(1, 0) EXCEPT !.end_time = 0]>>
    /\ procs = <<>>
    /\ active_recordings = [c \in CamIds |-> NoSession]
    /\ running_motion_processes = [c \in CamIds |-> Null]
    /\ running_continuous_processes = [c \in CamIds |-> Null]
    /\ pending = [r \in Requests |-> 0]
    /\ starting = {}
    /\ response = NoResponse
    /\ thumb_threads = {}
    /\ now = 0
    /\ detect_params = [c \in CamIds |-> DefaultParams]
    /\ loops = [manager |-> "running", disk |-> "running"]
    /\ files \in {fs \in [FileIds -> SegmentFiles \cup EventFiles \cup {NoFile}] : OldestFirst(fs)}
    /\ disk_free \in FreeLevels
    /\ system_settings = Null

NextDisk ==
    \E raised \in DiskRaisePoints, failed \in SUBSET FileIds : disk_manager_pass(raised, failed)

SpecDisk == InitDisk /\ [][NextDisk]_vars

\* both loops of the detector side by side, over any pair of configured
\* cameras and a volume short of space that holds closed continuous segments
InitLoops ==
    /\ cameras \in [CamIds -> {[motion_type |-> "active", continuous_recording |-> FALSE],
                               [motion_type |-> "off", continuous_recording |-> TRUE]}]
    /\ events = <<>>
    /\ procs = <<>>
    /\ active_recordings = [c \in CamIds |-> NoSession]
    /\ running_motion_processes = [c \in CamIds |-> Null]
    /\ running_continuous_processes = [c \in CamIds |-> Null]
    /\ pending = [r \in Requests |-> 0]
    /\ starting = {}
    /\ response = NoResponse
    /\ thumb_threads = {}
    /\ now = 0
    /\ detect_params = [c \in CamIds |-> DefaultParams]
    /\ loops = [manager |-> "running", disk |-> "running"]
    /\ files = [f \in FileIds |-> [tree |-> "continuous", mtime |-> f, size |-> 6, open |-> FALSE]]
    /\ disk_free = 8
    /\ system_settings = Null

NextLoops ==
    \/ \E r \in RaisePoints, bad \in SUBSET CamIds, reached \in SUBSET CamIds :
          process_manager_cycle(r, bad, reached)
    \/ \E raised \in DiskRaisePoints, failed \in SUBSET FileIds : disk_manager_pass(raised, failed)
    \/ \E p \in 1..MaxProcs : ProcessExit(p)

SpecLoops == InitLoops /\ [][NextLoops]_vars

\* the reconciler next to the settings form: both cameras detect motion, and
\* their ROI and sensitivity are edited while the loop runs
ParamsTried == [motion_roi : Rois, motion_sensitivity : {20, 50}]

InitDetect ==
    /\ cameras = [c \in CamIds |-> [motion_type |-> "active", continuous_recording |-> FALSE]]
    /\ events = <<>>
    /\ procs = <<>>
    /\ active_recordings = [c \in CamIds |-> NoSession]
    /\ running_motion_processes = [c \in CamIds |-> Null]
    /\ running_continuous_processes = [c \in CamIds |-> Null]
    /\ pending = [r \in Requests |-> 0]
    /\ starting = {}
    /\ response = NoResponse
    /\ thumb_threads = {}
    /\ now = 0
    /\ detect_params = [c \in CamIds |-> DefaultParams]
    /\ loops = [manager |-> "running", disk |-> "running"]
    /\ files = [f \in FileIds |-> NoFile]
    /\ disk_free = TARGET_FREE_BYTES
    /\ system_settings = Null

NextDetect ==
    \/ \E c \in CamIds, params \in ParamsTried : update_detection(c, params)
    \/ \E r \in RaisePoints, bad \in SUBSET CamIds, reached \in SUBSET CamIds :
          process_manager_cycle(r, bad, reached)
    \/ \E p \in 1..MaxProcs : ProcessExit(p)

SpecDetect == InitDetect /\ [][NextDetect]_vars

\* ------------------------------------------ backend: events and settings
\* line 632: recordings/webhook-event-<second>.log, whatever the camera
WebhookPath(t) == <<Null, t>>

\* lines 635-637: the placeholder file of that second
Placeholder(t) == [tree |-> "webhook", mtime |-> t, size |-> 0, open |-> FALSE]

\* lines 640-647: Event(start_time=now, end_time=now, ...)
WebhookEvent(cam, t) ==
    [camera_id |-> cam, start_time |-> t, end_time |-> t,
     thumbnail_path |-> NoPath, video_path |-> WebhookPath(t), reason |-> "motion (webhook)"]

\* POST /api/webhook/motion/{path of camera c}: 404 for no camera, ignored
\* unless the camera is in webhook mode; the placeholder is written (a
\* failure is logged), then the event row is added and committed
webhook_motion_legacy(c, write_ok, commit_ok) ==
    /\ cameras[c] # NoCamera
    /\ IF cameras[c].motion_type # "webhook"
       THEN /\ write_ok /\ commit_ok
            /\ UNCHANGED <<events, files>>
       ELSE LET ev == WebhookEvent(c, now)
                present == \E f \in FileIds : files[f] = Placeholder(now)
                free == {f \in FileIds : files[f] = NoFile}
            IN /\ Len(events) < MaxEvents
               /\ write_ok => (present \/ free # {})
               /\ files' = IF write_ok /\ ~present
                           THEN [files EXCEPT ![Min(free)] = Placeholder(now)]
                           ELSE files
               /\ events' = IF commit_ok /\ ~UniqueViolation(ev.video_path)
                            THEN Append(events, ev)
                            ELSE events
    /\ UNCHANGED <<cameras, procs, active_recordings, running_motion_processes,
                   running_continuous_processes, pending, starting, response,
                   thumb_threads, now, detect_params, loops, disk_free, system_settings>>

\* DELETE /api/events/{eid}: 404 for no row; the row is deleted and
\* committed, then its files are removed where they exist. Of the files of
\* events only the placeholders are on the modelled volume by their path.
delete_event(eid, commit_ok) ==
    /\ eid \in 1..Len(events)
    /\ events[eid] # NoEvent
    /\ IF commit_ok
       THEN /\ events' = [events EXCEPT ![eid] = NoEvent]
            /\ files' = [f \in FileIds |->
                            IF /\ events[eid].video_path = WebhookPath(events[eid].start_time)
                               /\ files[f] = Placeholder(events[eid].start_time)
                            THEN NoFile ELSE files[f]]
       ELSE UNCHANGED <<events, files>>
    /\ UNCHANGED <<cameras, procs, active_recordings, running_motion_processes,
                   running_continuous_processes, pending, starting, response,
                   thumb_threads, now, detect_params, loops, disk_free, system_settings>>

\* DELETE /api/cameras/{id}/recordings/{filename}: 404 when the file does not
\* exist, else os.remove on /recordings/continuous/{id}/{filename}
delete_continuous_recording(f) ==
    /\ f \in ContinuousFiles(files)
    /\ files' = Without(files, {f})
    /\ disk_free' = disk_free + files[f].size
    /\ UNCHANGED <<cameras, events, procs, active_recordings, running_motion_processes,
                   running_continuous_processes, pending, starting, response,
                   thumb_threads, now, detect_params, loops, system_settings>>

\* the disk loop beside the backend's endpoint on one volume: a file is
\* deleted between two iterations or while one goes over its listing
NextShared ==
    \/ \E f \in FileIds : delete_continuous_recording(f)
    \/ \E raised \in DiskRaisePoints, failed, vanished \in SUBSET FileIds :
          disk_manager_loop(raised, failed, vanished)

SpecShared == InitDisk /\ [][NextShared]_vars

\* two sessions in progress, the stop handler and its thumbnail threads, and
\* the backend deleting events of the same table
NextDeletion ==
    \/ NextThumb
    \/ \E eid \in 1..MaxEvents, commit_ok \in BOOLEAN : delete_event(eid, commit_ok)

SpecDeletion == InitThumb /\ [][NextDeletion]_vars

\* GET /api/system/settings: the row is created with retention_days=30 when
\* the table is empty
get_system_settings ==
    /\ system_settings' = IF system_settings = Null THEN 30 ELSE system_settings
    /\ UNCHANGED <<cameras, events, procs, active_recordings, running_motion_processes,
                   running_continuous_processes, pending, starting, response,
                   thumb_threads, now, detect_params, loops, files, disk_free>>

\* the values of retention_days the settings are given; the schema accepts
\* any int
RetentionTried == {0, 30}

\* PUT /api/system/settings: retention_days is stored
update_system_settings(retention_days) ==
    /\ retention_days \in RetentionTried
    /\ system_settings' = retention_days
    /\ UNCHANGED <<cameras, events, procs, active_recordings, running_motion_processes,
                   running_continuous_processes, pending, starting, response,
                   thumb_threads, now, detect_params, loops, files, disk_free>>

\* the stored events as time passes: a finished event of camera 2 with its
\* video on a volume that is short of space; camera 1 is in webhook mode
InitRetention ==
    /\ cameras = [c \in CamIds |->
                     [motion_type |-> IF c = 1 THEN "webhook" ELSE "active",
                      continuous_recording |-> FALSE]]
    /\ events = <<[NewEvent(2, 0) EXCEPT !.end_time = 0, !.thumbnail_path = ThumbPath(2, 0)]>>
    /\ procs = <<>>
    /\ active_recordings = [c \in CamIds |-> NoSession]
    /\ running_motion_processes = [c \in CamIds |-> Null]
    /\ running_continuous_processes = [c \in CamIds |-> Null]
    /\ pending = [r \in Requests |-> 0]
    /\ starting = {}
    /\ response = NoResponse
    /\ thumb_threads = {}
    /\ now = 0
    /\ detect_params = [c \in CamIds |-> DefaultParams]
    /\ loops = [manager |-> "running", disk |-> "running"]
    /\ files = [f \in FileIds |->
                   IF f = 1 THEN [tree |-> "event", mtime |-> 1, size |-> 6, open |-> FALSE]
                   ELSE NoFile]
    /\ disk_free = 8
    /\ system_settings = Null

DiskPass == \E raised \in DiskRaisePoints, failed \in SUBSET FileIds : disk_manager_pass(raised, failed)

NextRetention ==
    \/ \E c \in CamIds, write_ok, commit_ok \in BOOLEAN : webhook_motion_legacy(c, write_ok, commit_ok)
    \/ \E eid \in 1..MaxEvents, commit_ok \in BOOLEAN : delete_event(eid, commit_ok)
    \/ get_system_settings
    \/ \E d \in RetentionTried : update_system_settings(d)
    \/ DiskPass
    \/ Tick

\* the disk thread runs its loop for ever (line 278: while True) and time
\* passes; the requests of users come or do not
SpecRetention ==
    /\ InitRetention
    /\ [][NextRetention]_vars
    /\ WF_vars(DiskPass)
    /\ WF_vars(Tick)

\* ======================================================================
\*                  Desired-State Reconciler: claims
\* ======================================================================
\* the step is an iteration of the loop in which nothing fails
FailureFreeCycle == process_manager_cycle("none", {}, CamIds)

\* the step is an iteration of the loop that runs to the end of its body
CompleteCycle == \E bad \in SUBSET CamIds : process_manager_cycle("none", bad, CamIds)

\* C9: reconciliation convergence. After every failure-free iteration, from
\* the empty registries or from whatever an earlier iteration left before the
\* configuration changed, the cameras with a registered detection process are
\* those that require one and the cameras with a registered continuous process
\* are those with continuous_recording set; each handle is a process of that
\* kind for that camera, and each continuous one is alive.
C9_Convergence ==
    [][FailureFreeCycle =>
          /\ Keys(running_motion_processes') = active_motion_ids
          /\ Keys(running_continuous_processes') = continuous_ids
          /\ \A c \in active_motion_ids :
                /\ running_motion_processes'[c] \in 1..Len(procs')
                /\ procs'[running_motion_processes'[c]].kind = "motion"
                /\ procs'[running_motion_processes'[c]].camera_id = c
                /\ procs'[running_motion_processes'[c]].sig = "none"
          /\ \A c \in continuous_ids :
                /\ running_continuous_processes'[c] \in 1..Len(procs')
                /\ procs'[running_continuous_processes'[c]]
                      = Popen("continuous", c, Null)]_vars

\* the registries match a non-empty desired set again after an earlier handle
\* was terminated
C9_Witness ==
    /\ Keys(running_motion_processes) = active_motion_ids
    /\ Keys(running_continuous_processes) = continuous_ids
    /\ active_motion_ids \cup continuous_ids # {}
    /\ \E p \in 1..Len(procs) : procs[p].sig = "TERM" /\ procs[p].kind = "motion"

\* C10: when a camera is no longer recorded around the clock, the next
\* iteration that runs to its end drops the camera's continuous handle and
\* terminates its process; and no step gives a camera a continuous handle or
\* launches a continuous process for it while its flag is false.
C10_ContinuousStopped ==
    [][\A c \in CamIds :
          /\ (CompleteCycle /\ c \notin continuous_ids /\ running_continuous_processes[c] # Null) =>
                /\ running_continuous_processes'[c] = Null
                /\ procs'[running_continuous_processes[c]].sig = "TERM"
          /\ (c \notin continuous_ids /\ running_continuous_processes[c] = Null) =>
                /\ running_continuous_processes'[c] = Null
                /\ \A p \in (Len(procs) + 1)..Len(procs') :
                      ~(procs'[p].kind = "continuous" /\ procs'[p].camera_id = c)]_vars

\* camera 1 is configured with continuous_recording off, has no continuous
\* handle, and a continuous process launched for it earlier was terminated
C10_Witness ==
    /\ cameras[1] # NoCamera
    /\ ~cameras[1].continuous_recording
    /\ running_continuous_processes[1] = Null
    /\ \E p \in 1..Len(procs) :
          procs[p] = [Popen("continuous", 1, Null) EXCEPT !.sig = "TERM"]

\* C11: after a failure-free iteration, every registered detection process
\* runs with the configuration that generate_motion_conf derives from the ROI
\* and the sensitivity stored for its camera when the iteration began.
C11_ParamsInEffect ==
    [][FailureFreeCycle =>
          \A c \in Keys(running_motion_processes') :
             procs'[running_motion_processes'[c]].conf = MotionConf(detect_params[c])]_vars

\* C12: after a failure-free iteration, every camera that requires detection
\* has a registered detection process that is alive.
C12_DeadDetectorRelaunched ==
    [][FailureFreeCycle =>
          \A c \in active_motion_ids :
             /\ running_motion_processes'[c] # Null
             /\ procs'[running_motion_processes'[c]].state = "running"]_vars

\* C13: an iteration that runs to its end replaces the continuous handle of a
\* camera still recorded around the clock, when the process behind it has
\* exited, by a newly launched continuous process for that camera; and no
\* step replaces a handle whose process is alive: it stays, or it is dropped
\* when the camera is no longer recorded.
C13_DeadContinuousReplaced ==
    [][\A c \in Keys(running_continuous_processes) :
          LET pid == running_continuous_processes[c]
          IN /\ (CompleteCycle /\ c \in continuous_ids /\ procs[pid].state = "exited") =>
                   /\ running_continuous_processes'[c] \in (Len(procs) + 1)..Len(procs')
                   /\ procs'[running_continuous_processes'[c]] = Popen("continuous", c, Null)
             /\ procs[pid].state = "running" =>
                   /\ running_continuous_processes'[c] \in {pid, Null}
                   /\ c \in continuous_ids => running_continuous_processes'[c] = pid]_vars

\* camera 1's continuous process ended by itself and its handle now names a
\* later, running continuous process
C13_Witness ==
    /\ running_continuous_processes[1] # Null
    /\ procs[running_continuous_processes[1]] = Popen("continuous", 1, Null)
    /\ \E p \in 1..(running_continuous_processes[1] - 1) :
          procs[p] = [Popen("continuous", 1, Null) EXCEPT !.state = "exited"]

\* C14: neither loop ends on an exception. Both threads are in their loop in
\* every state, whatever was raised in the iterations so far, and an
\* iteration whose query for the cameras fails changes neither registry and
\* launches or signals no process.
C14_LoopsSurvive ==
    /\ [](loops.manager # "dead" /\ loops.disk # "dead")
    /\ [][process_manager_cycle("query", {}, CamIds) =>
             UNCHANGED <<running_motion_processes, running_continuous_processes, procs>>]_vars

\* each loop has caught an exception, and the reconciler has launched a
\* process all the same
C14_Witness ==
    /\ loops = [manager |-> "recovered", disk |-> "recovered"]
    /\ procs # <<>>

\* C22: after a failure-free iteration, every camera whose detection mode is
\* not off (active or webhook) has exactly one registered detection process,
\* which is alive, and every camera whose mode is off has none.
C22_DetectorPerNonOffCamera ==
    [][FailureFreeCycle =>
          \A c \in CamIds :
             cameras[c] # NoCamera =>
                IF cameras[c].motion_type # "off"
                THEN /\ running_motion_processes'[c] # Null
                     /\ procs'[running_motion_processes'[c]].kind = "motion"
                     /\ procs'[running_motion_processes'[c]].camera_id = c
                     /\ procs'[running_motion_processes'[c]].state = "running"
                ELSE running_motion_processes'[c] = Null]_vars

\* C25: a process whose handle an iteration removes from a registry has been
\* asked to terminate and is no longer running when the iteration is over:
\* the stop waits a fixed time for it and then kills it.
C25_StopIsForced ==
    [][CompleteCycle =>
          \A c \in CamIds :
             /\ (running_motion_processes[c] # Null /\ running_motion_processes'[c] = Null) =>
                   /\ procs'[running_motion_processes[c]].sig \in {"TERM", "KILL"}
                   /\ procs'[running_motion_processes[c]].state = "exited"
             /\ (running_continuous_processes[c] # Null /\ running_continuous_processes'[c] = Null) =>
                   /\ procs'[running_continuous_processes[c]].sig \in {"TERM", "KILL"}
                   /\ procs'[running_continuous_processes[c]].state = "exited"]_vars

\* the cameras that require detection and have no handle
Unserved == active_motion_ids \ Keys(running_motion_processes)

\* C30: a failed launch of a detection process leaves its camera without a
\* handle and the loop alive, and the launch is tried again. Whether the
\* configuration could not be written (cameras of bad) or Popen raised (the
\* cameras not reached), the camera has no handle after the iteration and the
\* thread is still in its loop; and a failure-free iteration launches a new
\* detection process for every camera that requires one and has no handle,
\* whatever failed for it before.
C30_FailedLaunchRetried ==
    [][/\ \A bad \in SUBSET Unserved :
             process_manager_cycle("none", bad, CamIds) =>
                /\ \A c \in bad : running_motion_processes'[c] = Null
                /\ loops'.manager # "dead"
       /\ \A reached \in SUBSET CamIds :
             process_manager_cycle("motion", {}, reached) =>
                /\ \A c \in Unserved \ reached : running_motion_processes'[c] = Null
                /\ loops'.manager # "dead"
       /\ FailureFreeCycle =>
             \A c \in Unserved :
                /\ running_motion_processes'[c] \in (Len(procs) + 1)..Len(procs')
                /\ procs'[running_motion_processes'[c]].kind = "motion"
                /\ procs'[running_motion_processes'[c]].camera_id = c]_vars

\* the reconciler has caught an exception in an earlier iteration, and both
\* cameras, which it could not serve then, have their detection process now
C30_Witness ==
    /\ loops.manager = "recovered"
    /\ \A c \in CamIds :
          /\ running_motion_processes[c] # Null
          /\ procs[running_motion_processes[c]].kind = "motion"

\* C31: a session does not outlive its camera's detection process. The
\* iteration that removes a camera's detection process from the registry has
\* told it to end and, when the camera has a session, has posted a stop for
\* it; and whenever a camera has a session and no registered detection
\* process, the session is removed later on.
C31_SessionEndsWithDetection ==
    /\ [][\A c \in CamIds :
             (running_motion_processes[c] # Null /\ running_motion_processes'[c] = Null) =>
                /\ procs'[running_motion_processes[c]].sig # "none"
                /\ active_recordings[c] # NoSession =>
                      pending'[<<"stop", c>>] = pending[<<"stop", c>>] + 1]_vars
    /\ \A c \in CamIds :
          (active_recordings[c] # NoSession /\ running_motion_processes[c] = Null)
             ~> (active_recordings[c] = NoSession)

\* C32: an exception raised while one camera's detection process is started
\* stays with that camera. The iteration it is raised in still stops every
\* detection process that is no longer wanted, and for each camera other than
\* the ones whose launch was not reached it still starts the continuous
\* process that is missing, replaces the one that poll() finds dead and stops
\* the one that is no longer wanted.
C32_CycleIsolatesCameras ==
    [][\A bad, reached \in SUBSET CamIds :
          process_manager_cycle("motion", bad, reached) =>
             LET c0 == [procs |-> procs, reg |-> running_continuous_processes]
                 others == CamIds \ (Unserved \ reached)
             IN /\ \A c \in MotionToStop(running_motion_processes) :
                      /\ running_motion_processes'[c] = Null
                      /\ procs'[running_motion_processes[c]].sig # "none"
                /\ \A c \in ContinuousToStart(c0) \cap others :
                      /\ running_continuous_processes'[c] \in (Len(procs) + 1)..Len(procs')
                      /\ procs'[running_continuous_processes'[c]].kind = "continuous"
                /\ \A c \in ContinuousToStop(running_continuous_processes) \cap others :
                      running_continuous_processes'[c] = Null]_vars

\* ======================================================================
\*                  Detection Configuration Generator: claims
\* ======================================================================
\* the threshold camera c's registered daemon was configured with
ThresholdOf(c) == procs[running_motion_processes[c]].conf.threshold

\* C19: the threshold in the configuration of every registered detection
\* process is 5000 - 47 * s, where s in 0..100 is the sensitivity stored for
\* its camera (the value is an integer, so rounding leaves it as it is).
C19_ThresholdFormula ==
    \A c \in Keys(running_motion_processes) :
       ThresholdOf(c) = 5000 - 47 * detect_params[c].motion_sensitivity

\* C20: of two registered detection processes, the one whose camera stores
\* the smaller sensitivity has the strictly larger threshold.
C20_Monotone ==
    \A c1, c2 \in Keys(running_motion_processes) :
       detect_params[c1].motion_sensitivity < detect_params[c2].motion_sensitivity =>
          ThresholdOf(c1) > ThresholdOf(c2)

\* camera c's row holds the ROI string of the cell set R
RoiOf(c, R) == detect_params[c].motion_roi = FormatRoi(R)

\* the matrix a reader of the raster gets: pixel (row, col) is the byte at
\* row * width + col of the data that follows the header
Decode(file) ==
    [row \in 0..(file.height - 1) |-> [col \in 0..(file.width - 1) |->
        file.data[row * file.width + col + 1]]]

\* C21: for every set R of cells of 0..99 that a camera's ROI string lists,
\* generate_mask_file succeeds, its 10 x 10 matrix holds 255 at (r, c) exactly
\* when r * 10 + c is in R and 0 elsewhere, the file written is the P5 header
\* for 10 x 10 pixels of at most 255 followed by 100 bytes, and decoding the
\* file gives the matrix back; that file is the mask of the camera's
\* registered detection process when R is not empty.
C21_MaskMatchesCells ==
    \A c \in CamIds : \A R \in CellSets :
       RoiOf(c, R) =>
          LET g == generate_mask_file(detect_params[c].motion_roi)
          IN /\ g.ok
             /\ \A r \in 0..9 : \A k \in 0..9 :
                   g.mask[r][k] = IF r * 10 + k \in R THEN 255 ELSE 0
             /\ g.file.magic = "P5" /\ g.file.width = 10 /\ g.file.height = 10
             /\ g.file.maxval = 255 /\ Len(g.file.data) = 100
             /\ Decode(g.file) = g.mask
             /\ (R # {} /\ running_motion_processes[c] # Null) =>
                   /\ procs[running_motion_processes[c]].conf.has_mask
                   /\ procs[running_motion_processes[c]].conf.mask = g.file

\* a registered detection process whose mask has 255 at row 0, column 1 and
\* 0 at row 1, column 0: cell 1 is selected and cell 10 is not
C21_Witness ==
    \E c \in Keys(running_motion_processes) :
       LET conf == procs[running_motion_processes[c]].conf
       IN /\ conf.has_mask
          /\ Decode(conf.mask)[0][1] = 255
          /\ Decode(conf.mask)[1][0] = 0
          /\ \E R \in CellSets : RoiOf(c, R)

\* C26: a camera whose ROI string is malformed is in the no-detection state:
\* its registered detection process, if it has one, runs with a mask that
\* selects no cell, and never without a mask, which is detection on the whole
\* frame.
C26_MalformedRoiDetectsNothing ==
    \A c \in Keys(running_motion_processes) :
       detect_params[c].motion_roi \in MalformedRois =>
          LET conf == procs[running_motion_processes[c]].conf
          IN /\ conf.has_mask
             /\ \A i \in 1..Len(conf.mask.data) : conf.mask.data[i] = 0

\* C28: the threshold in the configuration of every registered detection
\* process is at least 1, whatever sensitivity is stored for its camera.
C28_ThresholdPositive ==
    \A c \in Keys(running_motion_processes) : ThresholdOf(c) >= 1

\* ======================================================================
\*                  Stored events: claims
\* ======================================================================
\* the step is an operation of the backend REST API
BackendStep ==
    \/ \E c \in CamIds : \E write_ok, commit_ok \in BOOLEAN :
          webhook_motion_legacy(c, write_ok, commit_ok)
    \/ \E eid \in 1..Len(events) : \E commit_ok \in BOOLEAN : delete_event(eid, commit_ok)
    \/ get_system_settings
    \/ \E d \in RetentionTried : update_system_settings(d)

\* C23: only the orchestrator writes an event's start_time, end_time and
\* thumbnail_path. No operation of the backend adds an event row or changes
\* a row that stays: after a backend step every row is as it was or deleted.
C23_BackendWritesNoEventTimes ==
    [][BackendStep =>
          /\ Len(events') = Len(events)
          /\ \A i \in 1..Len(events) : events'[i] \in {events[i], NoEvent}]_vars

\* the row of event i is in the table
Stored(i) == i \in 1..Len(events) /\ events[i] # NoEvent

\* the retention horizon in days: the stored value, 30 while none is stored
Horizon == IF system_settings = Null THEN 30 ELSE system_settings

\* event i began more than Horizon days (of 86400 seconds) ago
Expired(i) == Stored(i) /\ now - events[i].start_time > Horizon * 86400

\* C27: every event older than the retention horizon is eventually deleted
\* by the program itself, without a request of a user: no event stays stored
\* and older than the horizon for ever.
C27_ExpiredEventsSwept ==
    \A i \in 1..MaxEvents : Expired(i) ~> ~Expired(i)

\* ======================================================================
\* the continuous files the step removes
Deleted == {f \in ContinuousFiles(files) : files'[f] = NoFile}

\* those of them that are older than file g
OlderDeleted(g) == {h \in Deleted : files[h].mtime < files[g].mtime}

DistinctMtimes ==
    \A f, g \in ContinuousFiles(files) : f # g => files[f].mtime # files[g].mtime

\* the step is an eviction pass in which exactly the files of failed resist
EvictionPass(failed) == disk_free < MIN_FREE_BYTES /\ disk_manager_pass("none", failed)

\* C15: no step removes or alters a continuous segment that a running
\* recorder is still writing.
C15_OpenSegmentKept ==
    [][\A f \in ContinuousFiles(files) : files[f].open => files'[f] = files[f]]_vars

\* C16: in an eviction pass over files of distinct mtimes, a file is removed
\* only while measured free plus the sizes of the older removed files is below
\* the high watermark, and a removable file is left only when that sum has
\* reached the watermark, equality included: the removed files are the
\* shortest oldest-first run that reaches 15 GiB.
C16_StopsAtTarget ==
    [][\A failed \in SUBSET FileIds :
          (EvictionPass(failed) /\ DistinctMtimes) =>
             \A g \in ContinuousFiles(files) :
                /\ g \in Deleted =>
                      disk_free + TotalSize(files, OlderDeleted(g)) < TARGET_FREE_BYTES
                /\ (g \notin Deleted /\ g \notin failed) =>
                      disk_free + TotalSize(files, OlderDeleted(g)) >= TARGET_FREE_BYTES]_vars

\* C17: no step changes an event file or an Event row; the files a step
\* changes are continuous segments.
C17_EventArtifactsKept ==
    [][/\ \A f \in FileIds : files'[f] # files[f] => files[f].tree = "continuous"
       /\ events' = events]_vars

\* an eviction has freed space, and the oldest file on the volume is an
\* event video that is still there
C17_Witness ==
    /\ disk_free \notin FreeLevels
    /\ \E f \in FileIds :
          /\ files[f].tree = "event"
          /\ \A g \in FileIds : files[g] # NoFile => files[f].mtime <= files[g].mtime

\* the continuous files the step leaves as they are
Kept == {f \in ContinuousFiles(files) : files'[f] = files[f]}

\* C18: in an eviction pass, whichever of the files that are left could not
\* be removed, every other continuous file that is left is left because
\* measured free plus the sizes of the files really removed passed the
\* target: the pass went on after each failure and counted no failed file.
C18_FailedDeletionSkipped ==
    [][\A failed \in SUBSET Kept :
          EvictionPass(failed) =>
             \A g \in Kept \ failed :
                TargetReached(disk_free, TotalSize(files, Deleted))]_vars

\* an eviction removed a file although the target was out of reach, and a
\* continuous file is still there: one that could not be removed
C18_Witness ==
    /\ disk_free \notin FreeLevels
    /\ ~TargetReached(disk_free, 0)
    /\ ContinuousFiles(files) # {}

\* C33: a continuous file that another process removes while an eviction
\* pass goes over its listing is skipped like a file that cannot be removed.
\* Whichever files vanish and whichever resist, every other continuous file
\* the pass leaves is left because measured free plus the sizes of the files
\* the pass removed itself passed the target.
C33_VanishedFileSkipped ==
    [][\A raised \in DiskRaisePoints, failed, vanished \in SUBSET FileIds :
          (vanished # {} /\ disk_manager_loop(raised, failed, vanished)) =>
             \A g \in Kept \ failed :
                TargetReached(disk_free, TotalSize(files, Deleted \ vanished))]_vars

\* C29: a disk check that measures free space at or above the 10 GiB low
\* watermark deletes no file, also when the free space is still below the
\* 15 GiB high watermark.
C29_NoEvictionAboveLow ==
    [][disk_free >= MIN_FREE_BYTES => files' = files]_vars

\* free space between the two watermarks while a closed continuous segment,
\* which an eviction would take, is on the volume
C29_Witness ==
    /\ disk_free >= MIN_FREE_BYTES
    /\ disk_free < TARGET_FREE_BYTES
    /\ \E f \in ContinuousFiles(files) : ~files[f].open

\* ======================================================================
\*                  Event Recording Session Manager: claims
\* ======================================================================
EventIds == 1..Len(events)
ProcIds == 1..Len(procs)

\* the webhook handler of a request of this kind for camera c runs in the step
Handled(kind, c) == pending'[<<kind, c>>] = pending[<<kind, c>>] - 1

\* recording children of camera c that nobody has told to stop
Recorders(c) ==
    {p \in ProcIds : procs[p].kind = "record" /\ procs[p].camera_id = c /\ procs[p].sig = "none"}

\* the events those children are recording
RecordedEvents(c) == {procs[p].event_id : p \in Recorders(c)}

\* C1: at most one active recording session per camera. In every reachable
\* state, whatever the order in which concurrent start requests for a camera
\* are served, at most one recording subprocess launched for the camera has
\* not been told to stop, it is the one the camera's session entry holds, and
\* at most one RecordingEvent is being recorded for the camera: the one the
\* session entry names.
C1_AtMostOneSession ==
    \A c \in CamIds :
        /\ Cardinality(Recorders(c)) <= 1
        /\ Cardinality(RecordedEvents(c)) <= 1
        /\ \A p \in Recorders(c) :
              /\ active_recordings[c].process = p
              /\ active_recordings[c].event_id = procs[p].event_id
              /\ events[procs[p].event_id].camera_id = c
        /\ active_recordings[c] = NoSession => Recorders(c) = {}

\* a start handler for camera 1 is between its check and its registration while
\* two more start requests for camera 1 wait
C1_Witness ==
    /\ \E h \in starting : h.camera_id = 1
    /\ pending[<<"start", 1>>] = 2

\* C2: in every reachable state an event's end_time is null exactly when a
\* session entry names the event.
C2_OpenIffActive ==
    \A e \in EventIds :
        (events[e].end_time = Null) <=> (\E c \in CamIds : active_recordings[c].event_id = e)

\* C3: a start request for a camera that has a session is answered "Already
\* recording" and changes nothing: no event is created or modified, no
\* subprocess is launched, every session entry stays as it is.
C3_BeginIdempotent ==
    [][\A c \in CamIds :
          (Handled("start", c) /\ active_recordings[c] # NoSession) =>
              /\ response' = Reply("start", 200, "Already recording")
              /\ UNCHANGED <<cameras, events, procs, active_recordings, starting,
                             thumb_threads, running_motion_processes,
                             running_continuous_processes>>]_vars

\* a duplicate start was answered while camera 1 records its only event
C3_Witness ==
    /\ response = Reply("start", 200, "Already recording")
    /\ active_recordings[1] = Session(1, 1)
    /\ Len(events) = 1
    /\ Len(procs) = 1

\* C4: a stop request for a camera without a session is answered "No active
\* recording to stop" with a success status and leaves every event, the
\* session map and every subprocess as they are.
C4_StopWithoutSession ==
    [][\A c \in CamIds :
          (Handled("stop", c) /\ active_recordings[c] = NoSession) =>
              /\ response' = Reply("stop", 200, "No active recording to stop")
              /\ UNCHANGED <<cameras, events, procs, active_recordings, starting,
                             thumb_threads, running_motion_processes,
                             running_continuous_processes>>]_vars

\* a stop for idle camera 2 was answered while camera 1 records
C4_Witness ==
    /\ response = Reply("stop", 200, "No active recording to stop")
    /\ active_recordings[1] # NoSession
    /\ active_recordings[2] = NoSession
    /\ Len(events) >= 1

\* C5: a start request for a camera that is not in the store is answered with
\* status 404, creates no event and registers no session.
C5_UnknownCamera404 ==
    [][\A c \in CamIds :
          (Handled("start", c) /\ cameras[c] = NoCamera /\ active_recordings[c] = NoSession) =>
              /\ response'.status = 404
              /\ UNCHANGED <<events, active_recordings>>]_vars

\* C6: when a start handler returns an error status, no event it created is
\* left in the store and no session is registered.
C6_RollbackOnFailure ==
    [][\A h \in starting :
          (h \notin starting' /\ response'.status = 500) =>
              /\ events' = events
              /\ active_recordings' = active_recordings]_vars

\* the file name the suspended start handler h derived is that of a stored event
PathTaken(h) == \E i \in EventIds : events[i].video_path = VideoPath(h.camera_id, h.now)

\* C34: the events have distinct video paths. A start whose file name is
\* that of a stored event (a start, a stop and a start for one camera within
\* one second) is answered with an error status, and it adds no event,
\* registers no session, launches no subprocess and leaves every stored event
\* as it is.
C34_SameSecondStartRejected ==
    /\ [](\A i, j \in EventIds : i # j => events[i].video_path # events[j].video_path)
    /\ [][\A h \in starting :
             (h \notin starting' /\ PathTaken(h)) =>
                /\ response'.op = "start"
                /\ response'.status = 500
                /\ events' = events
                /\ procs' = procs
                /\ active_recordings' = active_recordings]_vars

\* a start was refused by the constraint: the event of that second is
\* stored and ended, and its camera has no session
C34_Witness ==
    /\ response = Reply("start", 500, "UNIQUE constraint failed")
    /\ \E c \in CamIds : \E i \in EventIds :
          /\ events[i].video_path = VideoPath(c, now)
          /\ events[i].end_time # Null
          /\ active_recordings[c] = NoSession

\* the sessions, events and subprocesses of the cameras other than c and both
\* registries are as they were; of events and subprocesses, those that exist
\* before the step and are not the session's own
OthersUntouched(c) ==
    \/ UNCHANGED <<active_recordings, events, procs,
                   running_motion_processes, running_continuous_processes>>
    \/ /\ \A d \in CamIds \ {c} : active_recordings'[d] = active_recordings[d]
       /\ \A i \in EventIds : events[i].camera_id # c => events'[i] = events[i]
       /\ \A p \in ProcIds : procs[p].camera_id # c => procs'[p] = procs[p]
       /\ UNCHANGED <<running_motion_processes, running_continuous_processes>>

\* C35: a start that succeeds for camera c adds exactly one event (start_time
\* set to the time of the request, end_time and thumbnail_path null, camera
\* c) and registers for c a session holding the id of that event and the
\* handle of the new subprocess; every step of a start or a stop handler for
\* c leaves the sessions, events and subprocesses of the other cameras and
\* both registries unchanged.
C35_BeginCreatesOneEvent ==
    [][/\ (starting' # starting /\ response'.status = 200) =>
             \A h \in starting \ starting' :
                /\ Len(events') = Len(events) + 1
                /\ \A i \in EventIds : events'[i] = events[i]
                /\ events'[Len(events')].camera_id = h.camera_id
                /\ events'[Len(events')].start_time = h.now
                /\ events'[Len(events')].end_time = Null
                /\ events'[Len(events')].thumbnail_path = NoPath
                /\ active_recordings'[h.camera_id] = Session(Len(procs'), Len(events'))
                /\ Len(procs') = Len(procs) + 1
                /\ procs'[Len(procs')] = Popen("record", h.camera_id, Len(events'))
       /\ starting' # starting =>
             \A h \in starting \ starting' : OthersUntouched(h.camera_id)
       /\ pending' # pending =>
             \A c \in CamIds :
                (Handled("start", c) \/ Handled("stop", c)) => OthersUntouched(c)]_vars

\* both cameras are recording, each its own open event, and the start that
\* came second has just been answered
C35_Witness ==
    /\ response = Reply("start", 200, "Recording started")
    /\ \A c \in CamIds :
          /\ active_recordings[c] # NoSession
          /\ events[active_recordings[c].event_id].camera_id = c
          /\ events[active_recordings[c].event_id].end_time = Null

\* C7: a stop whose subprocess output indicates failure still sets the
\* end_time of the session's event.
C7_FailedStopSetsEndTime ==
    [][\A c \in CamIds :
          (/\ Handled("stop", c)
           /\ active_recordings[c] # NoSession
           /\ response'.message = "Recording process failed") =>
              events'[active_recordings[c].event_id].end_time # Null]_vars

\* C8: a stop for a camera with a session removes the session entry and asks
\* the subprocess to terminate; when the bounded wait runs out it is killed.
\* In every outcome the entry is gone, the subprocess has been signalled and
\* it is no longer running when the handler returns.
C8_StopTerminates ==
    [][\A c \in CamIds :
          (Handled("stop", c) /\ active_recordings[c] # NoSession) =>
              LET p == active_recordings[c].process
              IN /\ active_recordings'[c] = NoSession
                 /\ procs'[p].sig \in {"TERM", "KILL"}
                 /\ procs'[p].state = "exited"
                 /\ \A q \in ProcIds \ {p} : procs'[q] = procs[q]]_vars

\* a recording child outlived the wait and was killed; its session is gone
C8_Witness ==
    \E p \in ProcIds :
        /\ procs[p].kind = "record"
        /\ procs[p].sig = "KILL"
        /\ active_recordings[procs[p].camera_id] = NoSession
        /\ response.op = "stop"

\* C37: in every state each active session references an event row that
\* exists, whatever the backend deletes meanwhile; and a stop that finds the
\* row of its session deleted still removes the session, ends the recording
\* subprocess and answers without an error status.
C37_SessionsReferenceRows ==
    /\ [](\A c \in CamIds :
             active_recordings[c] # NoSession =>
                events[active_recordings[c].event_id] # NoEvent)
    /\ [][\A c \in CamIds :
             (/\ active_recordings[c] # NoSession
              /\ events[active_recordings[c].event_id] = NoEvent
              /\ pending'[<<"stop", c>>] < pending[<<"stop", c>>]) =>
                /\ active_recordings'[c] = NoSession
                /\ procs'[active_recordings[c].process].state # "running"
                /\ response'.status = 200]_vars

\* C36: the fields of a stored event move one way. No step changes a
\* start_time; an end_time that is set is never changed or reset; and in
\* every state an event with a thumbnail_path has its end_time, and the
\* thumbnail threads that run are those of ended events.
C36_EventFieldsMonotone ==
    /\ [](\A i \in EventIds :
             /\ events[i].thumbnail_path # NoPath => events[i].end_time # Null
             /\ i \in thumb_threads => events[i].end_time # Null)
    /\ [][events' # events =>
             \A i \in EventIds :
                /\ events'[i].start_time = events[i].start_time
                /\ events[i].end_time # Null => events'[i].end_time = events[i].end_time]_vars

\* event 1 ended in second 0 and has its thumbnail; in second 1 a further
\* stop for its camera has been answered, and the end_time is that of second 0
C36_Witness ==
    /\ now = 1
    /\ events[1].end_time = 0
    /\ events[1].thumbnail_path # NoPath
    /\ response = Reply("stop", 200, "No active recording to stop")

\* a stop that ended a session answers while the thumbnail is still to be
\* made: the thread is started, end_time is written, thumbnail_path is null
StopAnswersFirst ==
    \A c \in CamIds :
       (/\ Handled("stop", c)
        /\ active_recordings[c] # NoSession
        /\ response'.message = "Recording stopped") =>
           LET eid == active_recordings[c].event_id
           IN /\ eid \in thumb_threads'
              /\ events'[eid].end_time # Null
              /\ events'[eid].thumbnail_path = NoPath

\* the thread of event eid touches nothing but the row's thumbnail_path: the
\* end_time stays set and the response the caller got stays as it is
FinalizeIsQuiet(eid) ==
    /\ events'[eid].end_time = events[eid].end_time
    /\ events'[eid].end_time # Null
    /\ response' = response
    /\ \A i \in EventIds \ {eid} : events'[i] = events[i]

\* the thumbnail path of the session that recorded event eid
SessionThumbPath(eid) == ThumbPath(events[eid].camera_id, events[eid].start_time)

\* C24 as stated: the stop answers before the thumbnail is made; the thread
\* sets thumbnail_path to the session's thumbnail path whenever the
\* extraction succeeds and leaves it null when the extraction fails, and in
\* both cases end_time stays set and the response is not touched.
C24_ThumbnailFollowsExtraction ==
    [][/\ StopAnswersFirst
       /\ \A eid \in thumb_threads : \A thumb_ok, commit_ok \in BOOLEAN :
             FinalizeEvent(eid, thumb_ok, commit_ok) =>
                /\ FinalizeIsQuiet(eid)
                /\ events'[eid].thumbnail_path =
                      IF thumb_ok THEN SessionThumbPath(eid) ELSE NoPath]_vars

\* C24, amended: the stop answers before the thumbnail is made; the thread
\* sets thumbnail_path to the session's thumbnail path when the extraction
\* succeeds and the update of the row is committed, and leaves it null when
\* the extraction or the update fails; in every case end_time stays set and
\* the response is not touched.
C24_ThumbnailFinalization ==
    [][/\ StopAnswersFirst
       /\ \A eid \in thumb_threads : \A thumb_ok, commit_ok \in BOOLEAN :
             FinalizeEvent(eid, thumb_ok, commit_ok) =>
                /\ FinalizeIsQuiet(eid)
                /\ events'[eid].thumbnail_path =
                      IF thumb_ok /\ commit_ok THEN SessionThumbPath(eid) ELSE NoPath]_vars

\* both threads are over: one event has its thumbnail, the other has none,
\* and both have their end_time
C24_Witness ==
    /\ thumb_threads = {}
    /\ \E e1, e2 \in EventIds :
          /\ events[e1].end_time # Null /\ events[e1].thumbnail_path = SessionThumbPath(e1)
          /\ events[e2].end_time # Null /\ events[e2].thumbnail_path = NoPath
====
